---- MODULE Spec2Model ----
(***************************************************************************)
(* Junior College Result: the result computation engine                    *)
(* (backend/services/result_service.py) and the request handlers that      *)
(* mutate marks, students and allocations and that read Result rows        *)
(* (backend/routes/teacher_routes.py, backend/routes/admin_routes.py).     *)
(*                                                                         *)
(* Numbers.  Marks (unit1, unit2, term, annual, grace) are whole numbers.  *)
(* Values the code rounds to two decimals (Result.percentage,              *)
(* Mark.sub_avg) are kept in hundredths: 7333 stands for 73.33.            *)
(* A database NULL / Python None in a numeric column is NULL, in a grade   *)
(* column NoGrade, in a string column "".                                  *)
(***************************************************************************)
EXTENDS Integers, Sequences, FiniteSets, TLC

VARIABLES
    students,     \* Student rows
    allocs,       \* TeacherSubjectAllocation rows, in allocation_id order
    marks,        \* Mark rows
    results,      \* committed Result rows: <<roll_no, division>> -> row
    last,         \* the last request served and its response
    calls         \* the calls of the engine that are between their reads and
                  \* their commit while other requests are served

vars == <<students, allocs, marks, results, last, calls>>

----------------------------------------------------------------------------
(* Bounds of the model *)

\* at most this many Mark rows at a time
MaxMarks == 2

----------------------------------------------------------------------------
(* Values *)

NULL == -1
NoGrade == "null"
GRACE_MAX == 15

Divisions == {"A", "B"}
ADMIN == 0
Teachers == {1, 2}

\* Subject rows: subject_id -> subject_code
SubjectCodes == <<"ENG", "ECO", "BK", "OC", "HINDI", "IT", "MATHS", "SP", "EVS", "PE">>

\* subjects.get(subject_id): "" when there is no such Subject
subjects(sid) == IF sid \in DOMAIN SubjectCodes THEN SubjectCodes[sid] ELSE ""

Key(row) == <<row.roll_no, row.division>>

\* the requests that can be inside generate_results_for_division at a time
Calls == {1, 2}

----------------------------------------------------------------------------
(* result_service.generate_results_for_division *)

\* Mark.query.filter_by(roll_no, division).all()
MarksOf(mk, s) == {m \in mk : m.roll_no = s.roll_no /\ m.division = s.division}

\* code in mark_map
HasMark(mk, s, code) == \E m \in MarksOf(mk, s) : subjects(m.subject_id) = code

\* mark_map[code]
mark_map(mk, s, code) ==
    CHOOSE m \in MarksOf(mk, s) :
        subjects(m.subject_id) = code

grading_only == {"EVS", "PE"}
optional_codes == {"HINDI", "IT", "MATHS", "SP"}
FallbackRequired == <<"ENG", "ECO", "BK", "OC">>

\* TeacherSubjectAllocation.query.filter_by(division).all()
AllocsOf(al, d) == SelectSeq(al, LAMBDA a : a.division = d)

InSeq(x, seq) == \E i \in DOMAIN seq : seq[i] = x

RECURSIVE BaseLoop(_, _)
\* the loop over allocs that fills base_required
BaseLoop(seq, acc) ==
    IF seq = <<>> THEN acc
    ELSE LET code == subjects(Head(seq).subject_id)
         IN  IF code = "" THEN BaseLoop(Tail(seq), acc)
             ELSE IF code \in grading_only \/ code \in optional_codes
                  THEN BaseLoop(Tail(seq), acc)
             ELSE IF ~InSeq(code, acc)
                  THEN BaseLoop(Tail(seq), Append(acc, code))
             ELSE BaseLoop(Tail(seq), acc)

\* a resolver that falls back whenever the filtered list is empty
base_required_FallsBackWhenEmpty(al, d) ==
    IF BaseLoop(AllocsOf(al, d), <<>>) # <<>>
    THEN BaseLoop(AllocsOf(al, d), <<>>)
    ELSE FallbackRequired

\* a resolver that keeps the default list whatever the allocations are
base_required_IgnoresAllocations(al, d) == FallbackRequired

base_required(al, d) ==
    IF AllocsOf(al, d) # <<>>
    THEN BaseLoop(AllocsOf(al, d), <<>>)
    ELSE FallbackRequired

\* a required list without the student's optionals
required_codes_BaseOnly(al, s) == base_required(al, s.division)

required_codes(al, s) ==
    base_required(al, s.division)
      \o (IF s.optional_subject \in {"HINDI", "IT"} THEN <<s.optional_subject>> ELSE <<>>)
      \o (IF s.optional_subject_2 \in {"MATHS", "SP"} THEN <<s.optional_subject_2>> ELSE <<>>)

\* a gate that also wants a term score above zero
missing_required_NeedsTerm(mk, al, s) ==
    \E i \in DOMAIN required_codes(al, s) :
        LET code == required_codes(al, s)[i]
        IN  \/ ~HasMark(mk, s, code)
            \/ mark_map(mk, s, code).annual = NULL
            \/ mark_map(mk, s, code).term = 0

missing_required(mk, al, s) ==
    \E i \in DOMAIN required_codes(al, s) :
        LET code == required_codes(al, s)[i]
        IN  \/ ~HasMark(mk, s, code)
            \/ mark_map(mk, s, code).annual = NULL

----------------------------------------------------------------------------
(* Scoring of a COMPLETE student *)

CoreCodes == <<"ENG", "ECO", "BK", "OC">>

\* f"{field}_avg" for a subject code
AvgField(code) ==
    CASE code = "ENG" -> "eng_avg" [] code = "ECO" -> "eco_avg"
      [] code = "BK" -> "bk_avg" [] code = "OC" -> "oc_avg"
      [] code = "HINDI" -> "hindi_avg" [] code = "IT" -> "it_avg"
      [] code = "MATHS" -> "maths_avg" [] code = "SP" -> "sp_avg"

\* f"{field}_grace" for a subject code
GraceField(code) ==
    CASE code = "ENG" -> "eng_grace" [] code = "ECO" -> "eco_grace"
      [] code = "BK" -> "bk_grace" [] code = "OC" -> "oc_grace"
      [] code = "HINDI" -> "hindi_grace" [] code = "IT" -> "it_grace"
      [] code = "MATHS" -> "maths_grace" [] code = "SP" -> "sp_grace"

\* Result(): every column None
NewResult ==
    [eng_avg |-> NULL, eng_grace |-> NULL, eco_avg |-> NULL, eco_grace |-> NULL,
     bk_avg |-> NULL, bk_grace |-> NULL, oc_avg |-> NULL, oc_grace |-> NULL,
     hindi_avg |-> NULL, hindi_grace |-> NULL, it_avg |-> NULL, it_grace |-> NULL,
     maths_avg |-> NULL, maths_grace |-> NULL, sp_avg |-> NULL, sp_grace |-> NULL,
     total_grace |-> NULL, percentage |-> NULL,
     evs_grade |-> NoGrade, pe_grade |-> NoGrade]

\* x if x is not None else 0.0   (also: x or 0.0)
OrZero(x) == IF x = NULL THEN 0 ELSE x

\* the scoring state threaded through the loops: the row, total and count
RECURSIVE CoreLoop(_, _, _, _)
\* for code, field in {"ENG": "eng", "ECO": "eco", "BK": "bk", "OC": "oc"}.items()
CoreLoop(codes, mk, s, acc) ==
    IF codes = <<>> THEN acc
    ELSE LET code == Head(codes)
         IN  IF HasMark(mk, s, code)
             THEN LET m == mark_map(mk, s, code)
                      annual == OrZero(m.annual)
                      grace == OrZero(m.grace)
                  IN  CoreLoop(Tail(codes), mk, s,
                        [r |-> [acc.r EXCEPT ![AvgField(code)] = annual,
                                             ![GraceField(code)] = grace],
                         total |-> acc.total + annual,
                         count |-> acc.count + 1])
             ELSE CoreLoop(Tail(codes), mk, s, acc)

\* an optional branch that adds the grace to the total
OptionalBranch_AddsGrace(code, mk, s, acc) ==
    LET has == HasMark(mk, s, code)
        annual == IF has THEN OrZero(mark_map(mk, s, code).annual) ELSE 0
        grace == IF has THEN OrZero(mark_map(mk, s, code).grace) ELSE 0
    IN  [r |-> [acc.r EXCEPT ![AvgField(code)] = annual,
                             ![GraceField(code)] = grace],
         total |-> acc.total + annual + grace,
         count |-> acc.count + 1]

\* an optional branch that adds the annual without counting the subject
OptionalBranch_NotCounted(code, mk, s, acc) ==
    LET has == HasMark(mk, s, code)
        annual == IF has THEN OrZero(mark_map(mk, s, code).annual) ELSE 0
        grace == IF has THEN OrZero(mark_map(mk, s, code).grace) ELSE 0
    IN  [r |-> [acc.r EXCEPT ![AvgField(code)] = annual,
                             ![GraceField(code)] = grace],
         total |-> acc.total + annual,
         count |-> acc.count]

\* an optional branch that stores no grace
OptionalBranch_DropsGrace(code, mk, s, acc) ==
    LET has == HasMark(mk, s, code)
        annual == IF has THEN OrZero(mark_map(mk, s, code).annual) ELSE 0
    IN  [r |-> [acc.r EXCEPT ![AvgField(code)] = annual,
                             ![GraceField(code)] = 0],
         total |-> acc.total + annual,
         count |-> acc.count + 1]

\* one branch of an optional group: store annual and grace, add to total, count += 1
OptionalBranch(code, mk, s, acc) ==
    LET has == HasMark(mk, s, code)
        annual == IF has THEN OrZero(mark_map(mk, s, code).annual) ELSE 0
        grace == IF has THEN OrZero(mark_map(mk, s, code).grace) ELSE 0
    IN  [r |-> [acc.r EXCEPT ![AvgField(code)] = annual,
                             ![GraceField(code)] = grace],
         total |-> acc.total + annual,
         count |-> acc.count + 1]

OptionalGroup1(mk, s, acc) ==
    IF s.optional_subject = "HINDI" THEN OptionalBranch("HINDI", mk, s, acc)
    ELSE IF s.optional_subject = "IT" THEN OptionalBranch("IT", mk, s, acc)
    ELSE acc

OptionalGroup2(mk, s, acc) ==
    IF s.optional_subject_2 = "MATHS" THEN OptionalBranch("MATHS", mk, s, acc)
    ELSE IF s.optional_subject_2 = "SP" THEN OptionalBranch("SP", mk, s, acc)
    ELSE acc

\* a total that is added to the total the row already holds
TotalGrace_Accumulates(r) ==
    OrZero(r.total_grace)
      + OrZero(r.eng_grace) + OrZero(r.hindi_grace) + OrZero(r.it_grace)
      + OrZero(r.maths_grace) + OrZero(r.sp_grace) + OrZero(r.bk_grace)
      + OrZero(r.oc_grace)

\* a total that counts eco_grace too
TotalGrace_WithEco(r) ==
    OrZero(r.eng_grace) + OrZero(r.eco_grace) + OrZero(r.hindi_grace) + OrZero(r.it_grace)
      + OrZero(r.maths_grace) + OrZero(r.sp_grace) + OrZero(r.bk_grace)
      + OrZero(r.oc_grace)

\* sum(g for g in [eng, hindi, it, maths, sp, bk, oc grace] if g is not None)
TotalGrace(r) ==
    OrZero(r.eng_grace) + OrZero(r.hindi_grace) + OrZero(r.it_grace)
      + OrZero(r.maths_grace) + OrZero(r.sp_grace) + OrZero(r.bk_grace)
      + OrZero(r.oc_grace)

\* round(total / count, 2), in hundredths.  total is a whole number and
\* count <= 6, so 100 * total / count is never a tie and rounding to the
\* nearest hundredth is what Python's round gives.
Round2(total, count) == (200 * total + count) \div (2 * count)

\* grades whose bands start one above the thresholds
Grade_StrictlyAbove(a) ==
    IF a > 75 THEN "A+"
    ELSE IF a > 60 THEN "A"
    ELSE IF a > 50 THEN "B"
    ELSE IF a > 35 THEN "C"
    ELSE "F"

\* grades whose bands start one below the thresholds
Grade_OneBelow(a) ==
    IF a >= 74 THEN "A+"
    ELSE IF a >= 59 THEN "A"
    ELSE IF a >= 49 THEN "B"
    ELSE IF a >= 34 THEN "C"
    ELSE "F"

\* the letter grade of an EVS / PE annual
Grade(a) ==
    IF a >= 75 THEN "A+"
    ELSE IF a >= 60 THEN "A"
    ELSE IF a >= 50 THEN "B"
    ELSE IF a >= 35 THEN "C"
    ELSE "F"

\* a grade that is cleared when the mark is gone
GradeOnly_ClearsWhenAbsent(code, field, mk, s, r) ==
    IF HasMark(mk, s, code) /\ mark_map(mk, s, code).annual # NULL
    THEN [r EXCEPT ![field] = Grade(mark_map(mk, s, code).annual)]
    ELSE [r EXCEPT ![field] = NoGrade]

GradeOnly(code, field, mk, s, r) ==
    IF HasMark(mk, s, code) /\ mark_map(mk, s, code).annual # NULL
    THEN [r EXCEPT ![field] = Grade(mark_map(mk, s, code).annual)]
    ELSE r

\* lines 91-142: the row, total and count after the core subjects and the
\* two optional groups
Tally(mk, s, result) ==
    LET a0 == [r |-> result, total |-> 0, count |-> 0]
        a1 == CoreLoop(CoreCodes, mk, s, a0)
        a2 == OptionalGroup1(mk, s, a1)
    IN  OptionalGroup2(mk, s, a2)

\* lines 91-190: the row of a COMPLETE student, from the row it had
Scored(mk, s, result) ==
    LET a3 == Tally(mk, s, result)
        r4 == [a3.r EXCEPT !.total_grace = TotalGrace(a3.r)]
        r5 == IF a3.count > 0
              THEN [r4 EXCEPT !.percentage = Round2(a3.total, a3.count)]
              ELSE r4
        r6 == GradeOnly("EVS", "evs_grade", mk, s, r5)
    IN  GradeOnly("PE", "pe_grade", mk, s, r6)

\* the rows with the row of key k set to row (db.session.add)
Put(res, k, row) ==
    [x \in DOMAIN res \cup {k} |-> IF x = k THEN row ELSE res[x]]

\* a student loop that skips an INCOMPLETE student without touching the row
StudentStep_KeepsPercentage(res, mk, al, s) ==
    IF missing_required(mk, al, s)
    THEN res
    ELSE LET result == IF Key(s) \in DOMAIN res THEN res[Key(s)] ELSE NewResult
         IN  Put(res, Key(s), Scored(mk, s, result))

\* a student loop that gives an INCOMPLETE student an empty row
StudentStep_CreatesWhenIncomplete(res, mk, al, s) ==
    LET result == IF Key(s) \in DOMAIN res THEN res[Key(s)] ELSE NewResult
    IN  IF missing_required(mk, al, s)
        THEN Put(res, Key(s), [result EXCEPT !.percentage = NULL])
        ELSE Put(res, Key(s), Scored(mk, s, result))

\* a student loop that empties the row of an INCOMPLETE student
StudentStep_ClearsRow(res, mk, al, s) ==
    IF missing_required(mk, al, s)
    THEN IF Key(s) \in DOMAIN res
         THEN [res EXCEPT ![Key(s)] = NewResult]
         ELSE res
    ELSE LET result == IF Key(s) \in DOMAIN res THEN res[Key(s)] ELSE NewResult
         IN  Put(res, Key(s), Scored(mk, s, result))

\* one iteration of the student loop, on the session's view of the Result rows
StudentStep(res, mk, al, s) ==
    IF missing_required(mk, al, s)
    THEN IF Key(s) \in DOMAIN res
         THEN [res EXCEPT ![Key(s)].percentage = NULL]
         ELSE res
    ELSE LET result == IF Key(s) \in DOMAIN res THEN res[Key(s)] ELSE NewResult
         IN  Put(res, Key(s), Scored(mk, s, result))

RECURSIVE StudentLoop(_, _, _, _)
\* the student loop over the students in S
StudentLoop(res, mk, al, S) ==
    IF S = {} THEN res
    ELSE LET s == CHOOSE x \in S : \A y \in S : x.roll_no <= y.roll_no
         IN  StudentLoop(StudentStep(res, mk, al, s), mk, al, S \ {s})

\* a query that does not filter by division
StudentsOf_AnyDivision(st, d) == st

\* Student.query.filter_by(division=division).all()
StudentsOf(st, d) == {s \in st : s.division = d}

\* generate_results_for_division(division) run to its commit
generate_results_for_division(res, st, mk, al, d) ==
    StudentLoop(res, mk, al, StudentsOf(st, d))

----------------------------------------------------------------------------
(* A call from a handler, and the session it runs in *)

\* What one call of generate_results_for_division can do to the session whose
\* view of the Result rows is `view`: run to its commit (ok), or raise after
\* the loop has handled the students in P, leaving their rows changed and
\* pending in db.session (result_service.py never rolls back).  The query
\* has no ORDER BY, so P is any set of the division's students.
GenOutcomes(view, st, mk, al, d) ==
    {[view |-> generate_results_for_division(view, st, mk, al, d), ok |-> TRUE]}
      \cup {[view |-> StudentLoop(view, mk, al, P), ok |-> FALSE] :
               P \in SUBSET StudentsOf(st, d)}

RECURSIVE GenRuns(_, _, _, _, _, _)
\* for d in ds: try: generate_results_for_division(d) except Exception: pass
\* The session is [view, committed, failed]: a call that commits makes the
\* whole view durable, the rows an earlier failed call left pending included.
GenRuns(sess, st, mk, al, ds, i) ==
    IF i > Len(ds) THEN {sess}
    ELSE UNION { GenRuns([view |-> o.view,
                          committed |-> IF o.ok THEN o.view ELSE sess.committed,
                          failed |-> sess.failed \/ ~o.ok],
                         st, mk, al, ds, i + 1) :
                 o \in GenOutcomes(sess.view, st, mk, al, ds[i]) }

\* the session of a request that calls the engine for the divisions ds in turn
TryGenerate(res, st, mk, al, ds) ==
    GenRuns([view |-> res, committed |-> res, failed |-> FALSE], st, mk, al, ds, 1)

----------------------------------------------------------------------------
(* Requests *)

Student(r, d, o1, o2) ==
    [roll_no |-> r, division |-> d, optional_subject |-> o1, optional_subject_2 |-> o2]

\* the students add_student is asked to add
StudentReqs ==
    {Student(1, "A", "", ""), Student(2, "A", "HINDI", ""), Student(1, "B", "", "SP")}

Alloc(t, sid, d) == [teacher_id |-> t, subject_id |-> sid, division |-> d]

\* the allocations allocate_teacher is asked to make
AllocReqs == {Alloc(1, 1, "A"), Alloc(1, 5, "A")}

Scores(u1, u2, t, a) == [unit1 |-> u1, unit2 |-> u2, term |-> t, annual |-> a]

\* the component scores of a first entry and of an update
Entered == Scores(10, 10, 20, 40)
Updated == Scores(20, 20, 40, 75)
\* component scores out of range
BadScores ==
    {Scores(26, 10, 20, 40), Scores(10, 10, 51, 40), Scores(10, 10, 20, 101),
     Scores(10, -2, 20, 40), Scores(10, 10, 20, -2)}

\* token_required: the caller's user_id and user_type
User(id, type) == [id |-> id, type |-> type]
Users == {User(1, "TEACHER"), User(2, "TEACHER"), User(ADMIN, "ADMIN")}

MarkReq(user, r, d, sid, sc, g) ==
    [user |-> user, roll_no |-> r, division |-> d, subject_id |-> sid, sc |-> sc, grace |-> g]

\* the bodies of POST /teacher/marks; grace = NULL: the body has no "grace",
\* subject 11 is no Subject
EnterReqs ==
    {MarkReq(User(1, "TEACHER"), 2, "A", sid, Entered, g) : sid \in {1, 5}, g \in {NULL, 5}}
      \cup {MarkReq(User(1, "TEACHER"), 1, "A", 1, Entered, NULL)}
      \cup {MarkReq(User(1, "TEACHER"), 2, "A", 1, sc, NULL) : sc \in BadScores}
      \cup {MarkReq(User(1, "TEACHER"), 2, "A", 1, Entered, 16),
            MarkReq(User(1, "TEACHER"), 1, "A", 5, Entered, NULL),
            MarkReq(User(1, "TEACHER"), 2, "B", 1, Entered, NULL),
            MarkReq(User(2, "TEACHER"), 2, "A", 1, Entered, NULL),
            MarkReq(User(1, "TEACHER"), 2, "A", 11, Entered, NULL)}

\* the bodies of PUT /teacher/marks/<mark_id>
UpdateReqs ==
    {[user |-> User(1, "TEACHER"), sc |-> Updated, grace |-> 5],
     [user |-> User(1, "TEACHER"), sc |-> Updated, grace |-> 16],
     [user |-> User(2, "TEACHER"), sc |-> Updated, grace |-> 5]}
      \cup {[user |-> User(1, "TEACHER"), sc |-> sc, grace |-> NULL] : sc \in BadScores}

ReqRolls == {1, 2}

NoResp == [k \in {} |-> NULL]

\* the request served last: the handler, the HTTP status it returned, whether
\* a call of the engine raised inside it, and the percentages it returned
Last(op, status, failed, resp) ==
    [op |-> op, status |-> status, failed |-> failed, resp |-> resp]

\* the rows of division d
RowsOf(res, d) == [k \in {x \in DOMAIN res : x[2] = d} |-> res[k]]

----------------------------------------------------------------------------
(* admin_routes: students and allocations *)

add_student(req) ==
    /\ IF \E s \in students : Key(s) = Key(req)
       THEN /\ students' = students
            /\ last' = Last("add_student", 409, FALSE, NoResp)
       ELSE /\ students' = students \cup {req}
            /\ last' = Last("add_student", 201, FALSE, NoResp)
    /\ UNCHANGED <<allocs, marks, results>>

allocate_teacher(req) ==
    /\ IF \E i \in DOMAIN allocs : allocs[i] = req
       THEN /\ allocs' = allocs
            /\ last' = Last("allocate_teacher", 409, FALSE, NoResp)
       ELSE /\ allocs' = Append(allocs, req)
            /\ last' = Last("allocate_teacher", 201, FALSE, NoResp)
    /\ UNCHANGED <<students, marks, results>>

\* the sequence without its i-th element
Remove(seq, i) == [j \in 1..(Len(seq) - 1) |-> IF j < i THEN seq[j] ELSE seq[j + 1]]

\* allocation_id names the i-th row, or no row (i = 0)
delete_allocation(i) ==
    /\ IF i \in DOMAIN allocs
       THEN /\ allocs' = Remove(allocs, i)
            /\ last' = Last("delete_allocation", 200, FALSE, NoResp)
       ELSE /\ allocs' = allocs
            /\ last' = Last("delete_allocation", 404, FALSE, NoResp)
    /\ UNCHANGED <<students, marks, results>>

----------------------------------------------------------------------------
(* teacher_routes: marks *)

_check_teacher_allocation(al, teacher_id, subject_id, division) ==
    \E i \in DOMAIN al : al[i] = Alloc(teacher_id, subject_id, division)

\* the students of the division who take the subject; none when there is no
\* such Subject
_eligible_student_count_for_subject(st, subject_id, division) ==
    IF subjects(subject_id) = "" THEN 0
    ELSE Cardinality({s \in st :
            /\ s.division = division
            /\ subjects(subject_id) \in {"HINDI", "IT"}
                  => s.optional_subject = subjects(subject_id)
            /\ subjects(subject_id) \in {"MATHS", "SP"}
                  => s.optional_subject_2 = subjects(subject_id)})

_marks_count_for_subject(mk, subject_id, division) ==
    Cardinality({m \in mk : m.subject_id = subject_id /\ m.division = division})

\* no handler calls it
_are_all_marks_submitted(st, mk, subject_id, division) ==
    IF _eligible_student_count_for_subject(st, subject_id, division) = 0 THEN FALSE
    ELSE _marks_count_for_subject(mk, subject_id, division)
           >= _eligible_student_count_for_subject(st, subject_id, division)

\* range checks that leave the grace unchecked
InRange_NoGraceLimit(sc, grace) ==
    /\ ~(sc.unit1 < 0 \/ sc.unit1 > 25 \/ sc.unit2 < 0 \/ sc.unit2 > 25)
    /\ ~(sc.term < 0 \/ sc.term > 50)
    /\ ~(sc.annual < 0 \/ sc.annual > 100)

\* the range checks of enter_marks and update_marks
InRange(sc, grace) ==
    /\ ~(sc.unit1 < 0 \/ sc.unit1 > 25 \/ sc.unit2 < 0 \/ sc.unit2 > 25)
    /\ ~(sc.term < 0 \/ sc.term > 50)
    /\ ~(sc.annual < 0 \/ sc.annual > 100)
    /\ ~(grace < 0 \/ grace > GRACE_MAX)

\* a total of the unit and term scores only
Tot_WithoutAnnual(sc) == sc.unit1 + sc.unit2 + sc.term

\* tot = unit1 + unit2 + term + annual
Tot(sc) == sc.unit1 + sc.unit2 + sc.term + sc.annual

\* sub_avg = round(tot / 2, 2), in hundredths
SubAvg(sc) == 50 * Tot(sc)

MarkRow(r, d, sid, sc, grace, by) ==
    [roll_no |-> r, division |-> d, subject_id |-> sid,
     unit1 |-> sc.unit1, unit2 |-> sc.unit2, term |-> sc.term, annual |-> sc.annual,
     tot |-> Tot(sc), sub_avg |-> SubAvg(sc), grace |-> grace, entered_by |-> by]

\* a first entry that stores the grace of the request
EnteredMark_KeepsGrace(user, r, d, sid, sc, g) ==
    MarkRow(r, d, sid, sc, IF g # NULL THEN g ELSE 0, user.id)

\* the Mark row enter_marks adds: mark.grace = 0, whatever grace g the
\* request carried
EnteredMark(user, r, d, sid, sc, g) == MarkRow(r, d, sid, sc, 0, user.id)

\* what enter_marks does once it has committed the new Mark row: it returns
EnterCommitted(res, st, mk, al, d) == res

\* an optional subject validation that only looks at the first group
NotEnrolled_FirstGroupOnly(student, code) ==
    code \in {"HINDI", "IT"} /\ student.optional_subject # code

\* enter_marks' optional subject validation: the subject is an optional of
\* a group and not the one the student chose in that group
NotEnrolled(student, code) ==
    \/ code \in {"HINDI", "IT"} /\ student.optional_subject # code
    \/ code \in {"MATHS", "SP"} /\ student.optional_subject_2 # code

\* a lookup that finds no row
ExistingMark_NotFound(mk, r, d, sid) == {}

\* Mark.query.filter_by(roll_no, division, subject_id): the rows of the key
ExistingMark(mk, r, d, sid) ==
    {m \in mk : m.roll_no = r /\ m.division = d /\ m.subject_id = sid}

enter_marks(user, r, d, sid, sc, g) ==
    LET code == subjects(sid)
        found == {s \in students : s.roll_no = r /\ s.division = d}
        student == CHOOSE s \in found : TRUE
        existing == ExistingMark(marks, r, d, sid)
        grace == IF g # NULL THEN g ELSE 0
        Err(status) == /\ UNCHANGED <<marks, results>>
                       /\ last' = Last("enter_marks", status, FALSE, NoResp)
    IN  /\ IF code = "" THEN Err(404)
           ELSE IF ~_check_teacher_allocation(allocs, user.id, sid, d) THEN Err(403)
           ELSE IF found = {} THEN Err(404)
           ELSE IF NotEnrolled(student, code) THEN Err(400)
           ELSE IF existing # {} THEN Err(409)
           ELSE IF ~InRange(sc, grace) THEN Err(400)
           ELSE /\ Cardinality(marks) < MaxMarks
                /\ marks' = marks \cup {EnteredMark(user, r, d, sid, sc, g)}
                /\ results' = EnterCommitted(results, students, marks', allocs, d)
                /\ last' = Last("enter_marks", 201, FALSE, NoResp)
        /\ UNCHANGED <<students, allocs>>

\* the Mark row update_marks commits
UpdatedMark(mark, sc, g) ==
    [mark EXCEPT !.unit1 = sc.unit1, !.unit2 = sc.unit2, !.term = sc.term,
                 !.annual = sc.annual, !.tot = Tot(sc), !.sub_avg = SubAvg(sc),
                 !.grace = IF g # NULL THEN g ELSE mark.grace]

\* the Mark rows after update_marks' db.session.commit()
UpdateCommitted(mk, mark, sc, g) == (mk \ {mark}) \cup {UpdatedMark(mark, sc, g)}

\* the Mark rows after delete_mark's db.session.commit()
DeleteCommitted(mk, mark) == mk \ {mark}

\* a handler whose Mark change is rolled back when the engine raises
AfterTry_RollsBack(committedMarks, sess) ==
    [marks |-> IF sess.failed THEN marks ELSE committedMarks, results |-> sess.committed]

\* what a handler leaves durable after
\*   db.session.commit(); try: generate_results_for_division(d) except: pass
\* committedMarks are the Mark rows its own commit wrote, sess the session
\* after the call; the request's teardown drops what is still pending.
AfterTry(committedMarks, sess) == [marks |-> committedMarks, results |-> sess.committed]

\* an update that writes the scores and checks their ranges afterwards
update_marks_ChecksAfterWrite(user, target, sc, g) ==
    LET mark == target[1]
        grace == IF g # NULL THEN g ELSE mark.grace
        Err(status) == /\ UNCHANGED <<marks, results>>
                       /\ last' = Last("update_marks", status, FALSE, NoResp)
    IN  /\ IF target = <<>> THEN Err(404)
           ELSE IF subjects(mark.subject_id) = "" THEN Err(404)
           ELSE IF ~_check_teacher_allocation(allocs, user.id, mark.subject_id, mark.division)
                THEN Err(403)
           ELSE IF ~InRange(sc, grace)
                THEN /\ marks' = UpdateCommitted(marks, mark, sc, g)
                     /\ results' = results
                     /\ last' = Last("update_marks", 400, FALSE, NoResp)
           ELSE \E sess \in TryGenerate(results, students, UpdateCommitted(marks, mark, sc, g),
                                        allocs, <<mark.division>>) :
                  LET after == AfterTry(UpdateCommitted(marks, mark, sc, g), sess)
                  IN  /\ marks' = after.marks
                      /\ results' = after.results
                      /\ last' = Last("update_marks", 200, sess.failed, NoResp)
        /\ UNCHANGED <<students, allocs>>

\* mark_id names the row in target, or no row (target = <<>>)
update_marks(user, target, sc, g) ==
    LET mark == target[1]
        grace == IF g # NULL THEN g ELSE mark.grace
        Err(status) == /\ UNCHANGED <<marks, results>>
                       /\ last' = Last("update_marks", status, FALSE, NoResp)
    IN  /\ IF target = <<>> THEN Err(404)
           ELSE IF subjects(mark.subject_id) = "" THEN Err(404)
           ELSE IF ~_check_teacher_allocation(allocs, user.id, mark.subject_id, mark.division)
                THEN Err(403)
           ELSE IF ~InRange(sc, grace) THEN Err(400)
           ELSE \E sess \in TryGenerate(results, students, UpdateCommitted(marks, mark, sc, g),
                                        allocs, <<mark.division>>) :
                  LET after == AfterTry(UpdateCommitted(marks, mark, sc, g), sess)
                  IN  /\ marks' = after.marks
                      /\ results' = after.results
                      /\ last' = Last("update_marks", 200, sess.failed, NoResp)
        /\ UNCHANGED <<students, allocs>>

\* an authorization check that lets every caller through
NotAuthorized_Nobody(user, mark) == FALSE

\* delete_mark's authorization check: neither an ADMIN nor the teacher who
\* entered the mark
NotAuthorized(user, mark) == user.type # "ADMIN" /\ mark.entered_by # user.id

delete_mark(user, target) ==
    LET mark == target[1]
        Err(status) == /\ UNCHANGED <<marks, results>>
                       /\ last' = Last("delete_mark", status, FALSE, NoResp)
    IN  /\ IF target = <<>> THEN Err(404)
           ELSE IF NotAuthorized(user, mark) THEN Err(403)
           ELSE \E sess \in TryGenerate(results, students, DeleteCommitted(marks, mark),
                                        allocs, <<mark.division>>) :
                  LET after == AfterTry(DeleteCommitted(marks, mark), sess)
                  IN  /\ marks' = after.marks
                      /\ results' = after.results
                      /\ last' = Last("delete_mark", 200, sess.failed, NoResp)
        /\ UNCHANGED <<students, allocs>>

\* the rows a mark_id of a request can name
Targets == {<<m>> : m \in marks} \cup {<<>>}

----------------------------------------------------------------------------
(* admin_routes and teacher_routes: handlers that run the engine and read *)

\* "percentage": getattr(result, "percentage", None) if result else None
Percentages(view, S) ==
    [k \in {Key(s) : s \in S} |-> IF k \in DOMAIN view THEN view[k].percentage ELSE NULL]

\* the orders in which a loop can meet the elements of D
Orders(D) ==
    {seq \in [1..Cardinality(D) -> D] :
        \A i, j \in DOMAIN seq : seq[i] = seq[j] => i = j}

\* POST /admin/results/generate: the call is not wrapped in try/except
generate_results(d) ==
    /\ IF d = ""
       THEN /\ results' = results
            /\ last' = Last("generate_results", 400, FALSE, NoResp)
       ELSE \E o \in GenOutcomes(results, students, marks, allocs, d) :
              /\ results' = IF o.ok THEN o.view ELSE results
              /\ last' = Last("generate_results", IF o.ok THEN 200 ELSE 500, ~o.ok, NoResp)
    /\ UNCHANGED <<students, allocs, marks>>

\* the body shared by the handlers that refresh the divisions ds in turn and
\* then read the Result rows of the students in S through the same session
RefreshAndRead(op, ds, S) ==
    \E sess \in TryGenerate(results, students, marks, allocs, ds) :
        /\ results' = sess.committed
        /\ last' = Last(op, 200, sess.failed, Percentages(sess.view, S))

\* GET /admin/results: roll = 0 and division = "" stand for an absent parameter
fetch_results(roll, division) ==
    LET found == {s \in students :
                     s.roll_no = roll /\ (division = "" \/ s.division = division)}
        Err(status) == /\ results' = results
                       /\ last' = Last("fetch_results", status, FALSE, NoResp)
    IN  /\ IF roll # 0
           THEN IF found = {} THEN Err(404)
                ELSE \E ds \in Orders({s.division : s \in found}) :
                        RefreshAndRead("fetch_results", ds, found)
           ELSE IF division = "" THEN Err(400)
           ELSE RefreshAndRead("fetch_results", <<division>>,
                               StudentsOf(students, division))
        /\ UNCHANGED <<students, allocs, marks>>

\* GET /teacher/complete-table
view_complete_table(user, division) ==
    LET Err(status) == /\ results' = results
                       /\ last' = Last("view_complete_table", status, FALSE, NoResp)
    IN  /\ IF division = "" THEN Err(400)
           ELSE IF /\ ~\E i \in DOMAIN allocs :
                         allocs[i].teacher_id = user.id /\ allocs[i].division = division
                   /\ user.type # "ADMIN"
                THEN Err(403)
           ELSE RefreshAndRead("view_complete_table", <<division>>,
                               StudentsOf(students, division))
        /\ UNCHANGED <<students, allocs, marks>>

\* GET /admin/students/<roll_no>/pdf
student_marksheet_pdf(roll, division) ==
    /\ IF division = ""
       THEN /\ results' = results
            /\ last' = Last("student_marksheet_pdf", 400, FALSE, NoResp)
       ELSE \E sess \in TryGenerate(results, students, marks, allocs, <<division>>) :
              /\ results' = sess.committed
              /\ last' = IF <<roll, division>> \in DOMAIN sess.view
                         THEN Last("student_marksheet_pdf", 200, sess.failed,
                                   [k \in {<<roll, division>>} |-> sess.view[k].percentage])
                         ELSE Last("student_marksheet_pdf", 404, sess.failed, NoResp)
    /\ UNCHANGED <<students, allocs, marks>>

----------------------------------------------------------------------------
(* The system *)

\* no request is being served
Idle == Last("", 0, FALSE, NoResp)

\* a request that is not inside the engine
NoCall == [pc |-> "idle", division |-> "", loaded |-> NoResp, view |-> NoResp]

\* requests are served one at a time: no call is ever in flight
NoCalls == [c \in Calls |-> NoCall]

\* an empty database
Init ==
    /\ students = {}
    /\ allocs = <<>>
    /\ marks = {}
    /\ results = NoResp
    /\ last = Idle
    /\ calls = NoCalls

\* the response has been sent and the request's context is torn down; the
\* server takes the next request (requests are served one at a time)
teardown ==
    /\ last # Idle
    /\ last' = Idle
    /\ UNCHANGED <<students, allocs, marks, results, calls>>

\* a request is served from its first line to its response, then torn down
Next ==
    \/ last = Idle /\ \E req \in StudentReqs : add_student(req)
          /\ UNCHANGED calls
    \/ last = Idle /\ \E req \in AllocReqs : allocate_teacher(req)
          /\ UNCHANGED calls
    \/ last = Idle /\ \E i \in 0..Cardinality(AllocReqs) : delete_allocation(i)
          /\ UNCHANGED calls
    \/ last = Idle /\ \E req \in EnterReqs :
          enter_marks(req.user, req.roll_no, req.division, req.subject_id, req.sc, req.grace)
          /\ UNCHANGED calls
    \/ last = Idle /\ \E req \in UpdateReqs, target \in Targets :
          update_marks(req.user, target, req.sc, req.grace)
          /\ UNCHANGED calls
    \/ last = Idle /\ \E user \in Users, target \in Targets : delete_mark(user, target)
          /\ UNCHANGED calls
    \/ last = Idle /\ \E d \in Divisions : generate_results(d)
          /\ UNCHANGED calls
    \/ last = Idle /\ \E roll \in ReqRolls \cup {0}, d \in Divisions \cup {""} :
          fetch_results(roll, d)
          /\ UNCHANGED calls
    \/ last = Idle /\ \E user \in Users, d \in Divisions : view_complete_table(user, d)
          /\ UNCHANGED calls
    \/ last = Idle /\ \E roll \in ReqRolls, d \in Divisions : student_marksheet_pdf(roll, d)
          /\ UNCHANGED calls
    \/ teardown

Spec == Init /\ [][Next]_vars

----------------------------------------------------------------------------
(* The engine on populated databases *)

\* a Mark row with the annual and grace given (annual NULL: the column is
\* nullable, and the engine's gate tests it)
Seed(r, d, sid, annual, grace, by) ==
    IF annual # NULL
    THEN MarkRow(r, d, sid, Scores(10, 10, 20, annual), grace, by)
    ELSE [MarkRow(r, d, sid, Scores(10, 10, 20, 0), grace, by)
             EXCEPT !.annual = NULL, !.tot = NULL, !.sub_avg = NULL]

EngineStudents ==
    {Student(1, "A", "HINDI", "MATHS"), Student(2, "A", "", ""), Student(1, "B", "IT", "SP")}

\* allocation tables: none; ECO before ENG, ECO twice, an optional, a
\* grade-only subject and a subject_id without Subject; the four core
\* subjects, and ENG for division B
EngineAllocs ==
    {<<>>,
     <<Alloc(1, 2, "A"), Alloc(1, 1, "A"), Alloc(2, 2, "A"), Alloc(1, 5, "A"),
       Alloc(1, 9, "A"), Alloc(1, 11, "A")>>,
     <<Alloc(1, 1, "A"), Alloc(1, 2, "A"), Alloc(1, 3, "A"), Alloc(1, 4, "A"),
       Alloc(1, 1, "B")>>}

\* the marks of student 1 of division A: the core subjects by teacher 1,
\* the optionals and EVS by teacher 2
MarksA1 ==
    {Seed(1, "A", 1, 80, 0, 1), Seed(1, "A", 2, 70, 3, 1), Seed(1, "A", 3, 60, 0, 1),
     Seed(1, "A", 4, 50, 0, 1), Seed(1, "A", 5, 90, 5, 2), Seed(1, "A", 7, 40, 2, 2),
     Seed(1, "A", 9, 75, 0, 2)}

\* the marks of student 2 of division A, with and without a null annual
MarksA2 ==
    {{Seed(2, "A", 1, 35, 0, 1), Seed(2, "A", 2, 74, 0, 2)},
     {Seed(2, "A", 1, 35, 0, 1), Seed(2, "A", 2, NULL, 0, 2)}}

\* the marks of student 1 of division B
MarksB1 ==
    {Seed(1, "B", 1, 60, 0, 1), Seed(1, "B", 6, 49, 0, 2), Seed(1, "B", 8, 50, 4, 2)}

EngineMarks == {MarksA1 \cup a2 \cup MarksB1 : a2 \in MarksA2}

InitEngine ==
    /\ students = EngineStudents
    /\ allocs \in EngineAllocs
    /\ marks \in EngineMarks
    /\ results = NoResp
    /\ last = Idle
    /\ calls = NoCalls

\* the engine is run while teacher 2 deletes marks and allocations are deleted
NextEngine ==
    \/ last = Idle /\ \E d \in Divisions : generate_results(d)
          /\ UNCHANGED calls
    \/ last = Idle /\ \E target \in Targets : delete_mark(User(2, "TEACHER"), target)
          /\ UNCHANGED calls
    \/ last = Idle /\ \E i \in 0..1 : delete_allocation(i)
          /\ UNCHANGED calls
    \/ teardown

SpecEngine == InitEngine /\ [][NextEngine]_vars

----------------------------------------------------------------------------
(* The engine on every EVS and PE annual *)

\* the largest annual the range checks of enter_marks and update_marks admit
MaxAnnual == 100

\* one student of division A with an ENG, an EVS and a PE Mark; ENG, EVS and
\* PE are allocated
InitGrades ==
    /\ students = {Student(2, "A", "", "")}
    /\ allocs = <<Alloc(1, 1, "A"), Alloc(1, 9, "A"), Alloc(1, 10, "A")>>
    /\ \E evs \in 0..MaxAnnual, pe \in 0..MaxAnnual :
          marks = {Seed(2, "A", 1, 60, 0, 1), Seed(2, "A", 9, evs, 0, 1),
                   Seed(2, "A", 10, pe, 0, 1)}
    /\ results = NoResp
    /\ last = Idle
    /\ calls = NoCalls

NextGrades ==
    \/ last = Idle /\ \E d \in Divisions : generate_results(d)
          /\ UNCHANGED calls
    \/ teardown

SpecGrades == InitGrades /\ [][NextGrades]_vars

----------------------------------------------------------------------------
(* The engine on students with every core mark *)

\* students of division A with two, no and one chosen optional
ScoringStudents ==
    {Student(1, "A", "HINDI", "MATHS"), Student(2, "A", "", ""), Student(3, "A", "IT", "")}

\* allocation tables: none; the four core subjects (OC first), HINDI and
\* EVS; ENG and EVS only
ScoringAllocs ==
    {<<>>,
     <<Alloc(1, 4, "A"), Alloc(1, 1, "A"), Alloc(1, 2, "A"), Alloc(1, 3, "A"),
       Alloc(2, 5, "A"), Alloc(2, 9, "A")>>,
     <<Alloc(1, 1, "A"), Alloc(2, 9, "A")>>}

\* every student has the four core marks and the marks of the optionals
\* chosen; teacher 2 entered the HINDI, EVS and PE marks and one OC mark.
\* One grace is null, and in one table the annual of that OC mark (the
\* columns are nullable, and the engine tests them).
ScoringMarks ==
    {{Seed(1, "A", 1, 80, 0, 1), Seed(1, "A", 2, 70, 3, 1), Seed(1, "A", 3, 60, 0, 1),
      Seed(1, "A", 4, 90, 2, 1), Seed(1, "A", 5, 75, 5, 2), Seed(1, "A", 7, 65, 0, 1),
      Seed(1, "A", 9, 74, 0, 2), Seed(1, "A", 10, 50, 0, 2),
      Seed(2, "A", 1, 35, 0, 1), Seed(2, "A", 2, 36, 4, 1), Seed(2, "A", 3, 40, NULL, 1),
      Seed(2, "A", 4, 41, 1, 1), Seed(2, "A", 9, 49, 0, 2),
      Seed(3, "A", 1, 50, 0, 1), Seed(3, "A", 2, 51, 0, 1), Seed(3, "A", 3, 52, 0, 1),
      Seed(3, "A", 4, oc, 6, 2), Seed(3, "A", 6, 60, 1, 1)} : oc \in {53, NULL}}

InitScoring ==
    /\ students = ScoringStudents
    /\ allocs \in ScoringAllocs
    /\ marks \in ScoringMarks
    /\ results = NoResp
    /\ last = Idle
    /\ calls = NoCalls

\* the engine is run while teacher 2 deletes marks
NextScoring ==
    \/ last = Idle /\ \E d \in Divisions : generate_results(d)
          /\ UNCHANGED calls
    \/ last = Idle /\ \E target \in Targets : delete_mark(User(2, "TEACHER"), target)
          /\ UNCHANGED calls
    \/ teardown

SpecScoring == InitScoring /\ [][NextScoring]_vars

----------------------------------------------------------------------------
(* Mark entry for optional subjects *)

\* students who chose one optional of each group, and one who chose none
EnrolStudents ==
    {Student(1, "A", "HINDI", "MATHS"), Student(2, "A", "IT", "SP"), Student(3, "A", "", "")}

\* teacher 1 teaches ENG and the four optionals in division A
EnrolAllocs ==
    <<Alloc(1, 1, "A"), Alloc(1, 5, "A"), Alloc(1, 6, "A"), Alloc(1, 7, "A"),
      Alloc(1, 8, "A")>>

\* teacher 1 enters ENG and every optional for every student, and for a roll
\* number that no student has
EnrolReqs ==
    {MarkReq(User(1, "TEACHER"), r, "A", sid, Entered, NULL) :
        r \in 1..4, sid \in {1, 5, 6, 7, 8}}

InitEnrol ==
    /\ students = EnrolStudents
    /\ allocs = EnrolAllocs
    /\ marks = {}
    /\ results = NoResp
    /\ last = Idle
    /\ calls = NoCalls

\* marks are entered and deleted
NextEnrol ==
    \/ last = Idle /\ \E req \in EnrolReqs :
          enter_marks(req.user, req.roll_no, req.division, req.subject_id, req.sc, req.grace)
          /\ UNCHANGED calls
    \/ last = Idle /\ \E target \in Targets : delete_mark(User(1, "TEACHER"), target)
          /\ UNCHANGED calls
    \/ teardown

SpecEnrol == InitEnrol /\ [][NextEnrol]_vars

----------------------------------------------------------------------------
(* Two calls of the engine in flight *)

\* A call runs in the transaction of its request's session.  Its queries
\* (l.16-89) read the students, marks, allocations and Result rows as they
\* are committed when it reads; the loop changes the rows it loaded and adds
\* new ones in the session only; nothing reaches the database before
\* db.session.commit() (l.194).  No lock is taken and no row is versioned.
read(c, d) ==
    /\ calls[c].pc = "idle"
    /\ calls' = [calls EXCEPT ![c] =
                    [pc |-> "read", division |-> d, loaded |-> results,
                     view |-> generate_results_for_division(results, students, marks,
                                                            allocs, d)]]
    /\ UNCHANGED <<students, allocs, marks, results, last>>

\* the UPDATE the commit sends for a row the session loaded: the unit of work
\* writes the columns whose value the session changed, into the row as it
\* is now, and no other column
Flushed(now, loaded, view) ==
    [f \in DOMAIN now |-> IF view[f] # loaded[f] THEN view[f] ELSE now[f]]

\* the rows after the commit of a session that loaded `loaded` and holds
\* `view`; a new row of call c whose key k has got a row meanwhile is stored
\* as a second row, under <<k[1], k[2], c>>
Committed(now, loaded, view, c) ==
    LET new == DOMAIN view \ DOMAIN loaded
        ids == DOMAIN now
                 \cup {IF k \in DOMAIN now THEN <<k[1], k[2], c>> ELSE k : k \in new}
    IN  [id \in ids |->
            IF id \in DOMAIN loaded THEN Flushed(now[id], loaded[id], view[id])
            ELSE IF id \in DOMAIN now THEN now[id]
            ELSE IF id \in new THEN view[id]
            ELSE view[<<id[1], id[2]>>]]

\* db.session.commit() of call c.  When the session adds a row for a student
\* who has got one since the call read (l.77-89 found none), the INSERT
\* either raises on a unique key and the transaction is lost, or stores a
\* second row for the student, which Result.query...first() does not find:
\* which of the two depends on the table's declaration.
commit(c) ==
    LET me == calls[c]
        conflict == (DOMAIN me.view \ DOMAIN me.loaded) \cap DOMAIN results
    IN  /\ me.pc = "read"
        /\ \/ /\ conflict = {}
              /\ results' = Committed(results, me.loaded, me.view, c)
              /\ calls' = [calls EXCEPT ![c].pc = "done"]
           \/ /\ conflict # {}
              /\ results' = results
              /\ calls' = [calls EXCEPT ![c].pc = "failed"]
           \/ /\ conflict # {}
              /\ results' = Committed(results, me.loaded, me.view, c)
              /\ calls' = [calls EXCEPT ![c].pc = "done"]
        /\ UNCHANGED <<students, allocs, marks, last>>

\* both requests have been answered
finish ==
    /\ \A c \in Calls : calls[c].pc \in {"done", "failed"}
    /\ calls' = NoCalls
    /\ UNCHANGED <<students, allocs, marks, results, last>>

\* the requests served while calls are in flight: ECO is allocated and an
\* allocation deleted, and the ECO mark of the student is entered
RaceAllocReqs == {Alloc(1, 2, "A")}
RaceEnterReqs == {MarkReq(User(1, "TEACHER"), 2, "A", 2, Entered, NULL)}

\* one student of division A with an ENG mark, ENG allocated
InitRace ==
    /\ students = {Student(2, "A", "", "")}
    /\ allocs = <<Alloc(1, 1, "A")>>
    /\ marks = {Seed(2, "A", 1, 40, 0, 1)}
    /\ results = NoResp
    /\ last = Idle
    /\ calls = NoCalls

NextRace ==
    \/ last = Idle /\ \E c \in Calls, d \in Divisions : read(c, d)
    \/ last = Idle /\ \E c \in Calls : commit(c)
    \/ last = Idle /\ finish
    \/ last = Idle /\ \E req \in RaceAllocReqs : allocate_teacher(req)
          /\ UNCHANGED calls
    \/ last = Idle /\ \E i \in 1..2 : delete_allocation(i)
          /\ UNCHANGED calls
    \/ last = Idle /\ \E req \in RaceEnterReqs :
          enter_marks(req.user, req.roll_no, req.division, req.subject_id, req.sc, req.grace)
          /\ UNCHANGED calls
    \/ teardown

SpecRace == InitRace /\ [][NextRace]_vars

----------------------------------------------------------------------------
(* What the engine computes from the current rows *)

\* the Result rows after a call for division d that runs to its commit
Generated(d) == generate_results_for_division(results, students, marks, allocs, d)

\* the student is COMPLETE: every code of the required list has a Mark whose
\* annual is not null
Complete(s) == ~missing_required(marks, allocs, s)

RECURSIVE AnnualSum(_, _)
\* the sum of the student's annual values over the codes of a list
AnnualSum(s, codes) ==
    IF codes = <<>> THEN 0
    ELSE mark_map(marks, s, Head(codes)).annual + AnnualSum(s, Tail(codes))

\* round(mean of the annual values of exactly the required subjects, 2)
RequiredMean(s) ==
    Round2(AnnualSum(s, required_codes(allocs, s)), Len(required_codes(allocs, s)))

----------------------------------------------------------------------------
(* C1 *)

\* C1: for every student of a division for whom every code of the required
\* list has a Mark with non-null annual, generate_results_for_division sets
\* Result.percentage to round(mean of the annual values of exactly those
\* required subjects, 2).  (Stated for non-empty required lists, where the
\* mean exists.)
C1_PercentageIsRequiredMean ==
    \A d \in Divisions : \A s \in StudentsOf(students, d) :
        (Complete(s) /\ required_codes(allocs, s) # <<>>)
            => Generated(d)[Key(s)].percentage = RequiredMean(s)

----------------------------------------------------------------------------
(* C2 *)

\* C2: a student who lacks a Mark row, or has a null annual, for at least one
\* code of the required list has, after generate_results_for_division for
\* the division, a Result row (if there is one) whose percentage is null,
\* whatever percentage the row held before the call.
C2_IncompleteHasNullPercentage ==
    \A d \in Divisions : \A s \in StudentsOf(students, d) :
        (~Complete(s) /\ Key(s) \in DOMAIN Generated(d))
            => Generated(d)[Key(s)].percentage = NULL

\* an INCOMPLETE student whose row still holds the percentage an earlier call
\* stored, and which the call clears
C2_Witness ==
    \E s \in students :
        /\ ~Complete(s)
        /\ Key(s) \in DOMAIN results
        /\ results[Key(s)].percentage # NULL
        /\ Generated(s.division)[Key(s)].percentage = NULL

----------------------------------------------------------------------------
(* C3 *)

\* the divisions of the Mark rows a step added, changed or removed
ChangedDivisions == {m.division : m \in (marks' \ marks) \cup (marks \ marks')}

\* C3: when enter_marks, update_marks or delete_mark succeeds (and the engine
\* did not raise), the Result rows it leaves are those of a call of
\* generate_results_for_division for the mark's division made after the Mark
\* change was committed.
C3_MutationRegenerates ==
    [][(/\ last'.op \in {"enter_marks", "update_marks", "delete_mark"}
        /\ last'.status \in {200, 201}
        /\ ~last'.failed)
       => \A d \in ChangedDivisions :
             results' = generate_results_for_division(results, students, marks', allocs, d)]_vars

----------------------------------------------------------------------------
(* C4 *)

\* the student of a key
StudentAt(k) == CHOOSE s \in students : Key(s) = k

\* C4: a response of fetch_results, view_complete_table or
\* student_marksheet_pdf never carries a non-null percentage for a student
\* who is missing a required annual mark, and a percentage it carries is the
\* one the engine computes from the current rows.
C4_ReadsAreFresh ==
    (last.op \in {"fetch_results", "view_complete_table", "student_marksheet_pdf"}
       /\ last.status = 200)
      => \A k \in DOMAIN last.resp :
            /\ ~Complete(StudentAt(k)) => last.resp[k] = NULL
            /\ last.resp[k] # NULL =>
                  /\ k \in DOMAIN Generated(k[2])
                  /\ last.resp[k] = Generated(k[2])[k].percentage

----------------------------------------------------------------------------
(* C5 *)

\* C5: when generate_results_for_division raises inside update_marks or
\* delete_mark, the handler still answers 200 and the Mark rows are those its
\* own commit wrote: the updated row replaces the old one, the deleted row is
\* gone.
C5_MarkChangeSurvivesFailure ==
    [][(last'.op \in {"update_marks", "delete_mark"} /\ last'.failed)
       => /\ last'.status = 200
          /\ \/ /\ last'.op = "update_marks"
                /\ \E req \in UpdateReqs, m \in marks :
                      marks' = (marks \ {m}) \cup {UpdatedMark(m, req.sc, req.grace)}
             \/ /\ last'.op = "delete_mark"
                /\ \E m \in marks : marks' = marks \ {m}]_vars

\* delete_mark answered 200 although the engine raised: the last Mark row is
\* gone while a Result row still holds the percentage computed from it
C5_Witness ==
    /\ last.op = "delete_mark" /\ last.status = 200 /\ last.failed
    /\ marks = {}
    /\ \E k \in DOMAIN results : results[k].percentage # NULL

----------------------------------------------------------------------------
(* C6 *)

\* C6: generate_results_for_division is idempotent: a second call for the
\* same division, with students, marks and allocations unchanged, leaves
\* every Result row as the first call left it.
C6_Idempotent ==
    \A d \in Divisions :
        generate_results_for_division(Generated(d), students, marks, allocs, d) = Generated(d)

\* a call has just scored a student who has grace, and a second call for the
\* same division leaves the rows as they are
C6_Witness ==
    /\ last.op = "generate_results" /\ last.status = 200
    /\ \E d \in Divisions :
          /\ Generated(d) = results
          /\ \E k \in DOMAIN results :
                /\ k[2] = d
                /\ results[k].percentage # NULL
                /\ results[k].total_grace > 0

----------------------------------------------------------------------------
(* C7 *)

\* C7: the Result rows of a division are persisted all-or-nothing: whatever
\* a step does, the persisted rows of each division are either all as they
\* were or all as a call of generate_results_for_division for that division
\* on the committed Mark rows leaves them.
C7_DivisionRowsAllOrNothing ==
    [][\A d \in Divisions :
          \/ RowsOf(results', d) = RowsOf(results, d)
          \/ RowsOf(results', d) =
               RowsOf(generate_results_for_division(results, students, marks', allocs, d), d)]_vars

----------------------------------------------------------------------------
(* C8 *)

----------------------------------------------------------------------------
(* C9 *)

\* the subject codes of the division's allocations, in allocation order
AllocCodes(d) == [i \in DOMAIN AllocsOf(allocs, d) |-> subjects(AllocsOf(allocs, d)[i].subject_id)]

\* the codes with EVS, PE, HINDI, IT, MATHS and SP removed
KeptCodes(d) ==
    SelectSeq(AllocCodes(d),
              LAMBDA c : c # "" /\ c \notin {"EVS", "PE", "HINDI", "IT", "MATHS", "SP"})

\* a sequence without the repetitions of an earlier element
FirstSeen(seq) ==
    LET idx == {i \in DOMAIN seq : \A j \in 1..(i - 1) : seq[j] # seq[i]}
    IN  [n \in 1..Cardinality(idx) |->
            seq[CHOOSE i \in idx : Cardinality({j \in idx : j < i}) = n - 1]]

\* C9 as stated: the base required list is the filtered, deduplicated list
\* of the division's allocation codes and, whenever that list is empty, the
\* fixed list ENG, ECO, BK, OC.
C9_FallbackWheneverEmpty ==
    \A d \in Divisions :
        base_required(allocs, d) =
            IF FirstSeen(KeptCodes(d)) = <<>>
            THEN <<"ENG", "ECO", "BK", "OC">>
            ELSE FirstSeen(KeptCodes(d))

\* C9 amended: the base required list is the filtered list of the division's
\* allocation codes, deduplicated in first-seen order, when the division has
\* at least one allocation (the list may then be empty), and the fixed list
\* ENG, ECO, BK, OC only when the division has no allocation at all.
C9_FallbackOnlyWithoutAllocations ==
    \A d \in Divisions :
        base_required(allocs, d) =
            IF AllocCodes(d) = <<>>
            THEN <<"ENG", "ECO", "BK", "OC">>
            ELSE FirstSeen(KeptCodes(d))

\* a division whose allocations are all optional or grade-only subjects: its
\* base required list is empty
C9_Witness ==
    \E d \in Divisions :
        /\ AllocCodes(d) # <<>>
        /\ KeptCodes(d) = <<>>
        /\ base_required(allocs, d) = <<>>

----------------------------------------------------------------------------
(* C10 *)

\* the optionals the student chose: optional_subject when HINDI or IT, then
\* optional_subject_2 when MATHS or SP
ChosenOptionals(s) ==
    SelectSeq(<<s.optional_subject, s.optional_subject_2>>,
              LAMBDA c : c \in {"HINDI", "IT", "MATHS", "SP"})

\* the code has no Mark with an annual
NoAnnual(s, code) == ~HasMark(marks, s, code) \/ mark_map(marks, s, code).annual = NULL

\* C10: a student's required list is the division's base list followed by
\* the chosen optionals, and a student whose chosen optional has no annual
\* mark is INCOMPLETE: after a call the Result row, if any, has a null
\* percentage, whatever the other subjects' marks.
C10_ChosenOptionalIsRequired ==
    \A s \in students :
        /\ required_codes(allocs, s) = base_required(allocs, s.division) \o ChosenOptionals(s)
        /\ \A i \in DOMAIN ChosenOptionals(s) :
              NoAnnual(s, ChosenOptionals(s)[i])
                 => /\ ~Complete(s)
                    /\ Key(s) \in DOMAIN Generated(s.division)
                          => Generated(s.division)[Key(s)].percentage = NULL

\* a student with a Result row who has an annual mark for every required
\* subject except one chosen optional, and whose percentage the call clears
C10_Witness ==
    \E s \in students : \E i \in DOMAIN ChosenOptionals(s) :
        /\ NoAnnual(s, ChosenOptionals(s)[i])
        /\ \A j \in DOMAIN required_codes(allocs, s) :
              required_codes(allocs, s)[j] # ChosenOptionals(s)[i]
                 => ~NoAnnual(s, required_codes(allocs, s)[j])
        /\ base_required(allocs, s.division) # <<>>
        /\ Key(s) \in DOMAIN results
        /\ results[Key(s)].percentage # NULL
        /\ Generated(s.division)[Key(s)].percentage = NULL

----------------------------------------------------------------------------
(* Input states that differ in some columns of the Mark rows *)

\* other values for the component scores, the totals and the grace
OtherScores ==
    {[unit1 |-> 0, unit2 |-> 25, term |-> 0, tot |-> 0, sub_avg |-> 0, grace |-> GRACE_MAX],
     [unit1 |-> 25, unit2 |-> 0, term |-> 50, tot |-> 200, sub_avg |-> 10000, grace |-> 0]}

\* the row with unit1, unit2, term, tot, sub_avg and grace replaced
WithScores(m, o) ==
    [m EXCEPT !.unit1 = o.unit1, !.unit2 = o.unit2, !.term = o.term,
              !.tot = o.tot, !.sub_avg = o.sub_avg, !.grace = o.grace]

\* the Mark tables that differ from the current one only in unit1, unit2,
\* term, tot, sub_avg or grace: of one row, or of every row
ScoreVariants ==
    {(marks \ {m}) \cup {WithScores(m, o)} : m \in marks, o \in OtherScores}
      \cup {{WithScores(m, o) : m \in marks} : o \in OtherScores}

\* the Mark tables that differ from the current one only in grace
GraceVariants ==
    {(marks \ {m}) \cup {[m EXCEPT !.grace = g]} : m \in marks, g \in {0, 1, GRACE_MAX}}
      \cup {{[m EXCEPT !.grace = g] : m \in marks} : g \in {0, 1, GRACE_MAX}}

----------------------------------------------------------------------------
(* C11 *)

\* C11: the COMPLETE / INCOMPLETE verdict of a student is the same in two
\* input states that differ only in unit1, unit2, term, tot, sub_avg or
\* grace values of Mark rows.  (The input states are the databases between
\* two requests.)
C11_VerdictIgnoresOtherColumns ==
    last = Idle =>
        \A mk \in ScoreVariants : \A s \in students :
            missing_required(mk, allocs, s) = missing_required(marks, allocs, s)

\* a COMPLETE student with marks and an INCOMPLETE student with marks, and a
\* Mark table that differs from the current one
C11_Witness ==
    /\ last = Idle
    /\ \E s \in students :
          Complete(s) /\ required_codes(allocs, s) # <<>> /\ MarksOf(marks, s) # {}
    /\ \E s \in students : ~Complete(s) /\ MarksOf(marks, s) # {}
    /\ \E mk \in ScoreVariants : mk # marks

----------------------------------------------------------------------------
(* C12 *)

\* the Mark table with the grace of the student's ECO Mark set to g
WithEcoGrace(s, g) ==
    {IF m \in MarksOf(marks, s) /\ subjects(m.subject_id) = "ECO"
     THEN [m EXCEPT !.grace = g] ELSE m : m \in marks}

\* a grace field counted as 0 when absent
Counted(x) == IF x = NULL THEN 0 ELSE x

\* C12: after the engine scores a COMPLETE student, total_grace is the sum
\* of the row's eng, hindi, it, maths, sp, bk and oc grace fields, an absent
\* field counting as 0, and is the same whatever the grace of the ECO Mark.
C12_TotalGraceLeavesOutEco ==
    last = Idle =>
        \A d \in Divisions : \A s \in StudentsOf(students, d) :
            Complete(s) =>
                LET r == Generated(d)[Key(s)]
                IN  /\ r.total_grace =
                          Counted(r.eng_grace) + Counted(r.hindi_grace) + Counted(r.it_grace)
                            + Counted(r.maths_grace) + Counted(r.sp_grace)
                            + Counted(r.bk_grace) + Counted(r.oc_grace)
                    /\ \A g \in {0, 1, GRACE_MAX} :
                          generate_results_for_division(
                              results, students, WithEcoGrace(s, g), allocs, d)[Key(s)].total_grace
                            = r.total_grace

\* a scored student whose row holds a grace for ECO and for other subjects
C12_Witness ==
    /\ last = Idle
    /\ \E s \in students :
          /\ Complete(s)
          /\ Key(s) \in DOMAIN results
          /\ results = Generated(s.division)
          /\ results[Key(s)].eco_grace > 0
          /\ results[Key(s)].total_grace > 0

----------------------------------------------------------------------------
(* C13 *)

\* C13: two input states that differ only in the grace values of Mark rows
\* give, after generate_results_for_division, the same percentage to every
\* student.
C13_GraceLeavesPercentage ==
    last = Idle =>
        \A mk \in GraceVariants : \A d \in Divisions :
            LET a == Generated(d)
                b == generate_results_for_division(results, students, mk, allocs, d)
            IN  /\ DOMAIN a = DOMAIN b
                /\ \A k \in DOMAIN a : a[k].percentage = b[k].percentage

\* a student with grace on an optional subject has been scored, and the Mark
\* table with another grace differs from the current one
C13_Witness ==
    /\ last = Idle
    /\ \E s \in students :
          /\ Key(s) \in DOMAIN results
          /\ results = Generated(s.division)
          /\ results[Key(s)].percentage # NULL
          /\ results[Key(s)].hindi_grace > 0
    /\ \E mk \in GraceVariants : mk # marks

----------------------------------------------------------------------------
(* C14 *)

\* the annual of the student's Mark for a code
AnnualOf(s, code) == mark_map(marks, s, code).annual

\* the grade bands
Band(a) ==
    CASE a >= 75 -> "A+"
      [] 60 <= a /\ a < 75 -> "A"
      [] 50 <= a /\ a < 60 -> "B"
      [] 35 <= a /\ a < 50 -> "C"
      [] OTHER -> "F"

\* C14: for a COMPLETE student with an EVS (PE) Mark whose annual is not
\* null, the engine stores evs_grade (pe_grade) "A+" for an annual >= 75,
\* "A" for 60..74, "B" for 50..59, "C" for 35..49 and "F" below 35, for
\* every annual of 0..100.
C14_GradeBands ==
    \A d \in Divisions : \A s \in StudentsOf(students, d) :
        Complete(s) =>
            /\ ~NoAnnual(s, "EVS")
                  => Generated(d)[Key(s)].evs_grade = Band(AnnualOf(s, "EVS"))
            /\ ~NoAnnual(s, "PE")
                  => Generated(d)[Key(s)].pe_grade = Band(AnnualOf(s, "PE"))

\* a call has stored "A+" for an EVS annual of 75 and "F" for a PE annual of 34
C14_Witness ==
    /\ last.op = "generate_results" /\ last.status = 200
    /\ \E s \in students :
          /\ Key(s) \in DOMAIN results
          /\ AnnualOf(s, "EVS") = 75 /\ results[Key(s)].evs_grade = "A+"
          /\ AnnualOf(s, "PE") = 34 /\ results[Key(s)].pe_grade = "F"

----------------------------------------------------------------------------
(* C15 *)

\* the grade the engine stores for the student's Mark for EVS or PE is g
\* whenever the annual of that Mark is a
GradeAt(a, g) ==
    \A d \in Divisions : \A s \in StudentsOf(students, d) :
        Complete(s) =>
            /\ (~NoAnnual(s, "EVS") /\ AnnualOf(s, "EVS") = a)
                  => Generated(d)[Key(s)].evs_grade = g
            /\ (~NoAnnual(s, "PE") /\ AnnualOf(s, "PE") = a)
                  => Generated(d)[Key(s)].pe_grade = g

\* C15 as stated: an EVS or PE annual of 74 yields "C", 75 yields "A+", 49
\* yields "F" and 50 yields "B".
C15_BoundariesAsStated ==
    GradeAt(74, "C") /\ GradeAt(75, "A+") /\ GradeAt(49, "F") /\ GradeAt(50, "B")

\* C15 amended: an EVS or PE annual of 74 yields "A", 75 yields "A+", 49
\* yields "C" and 50 yields "B".
C15_Boundaries ==
    GradeAt(74, "A") /\ GradeAt(75, "A+") /\ GradeAt(49, "C") /\ GradeAt(50, "B")

\* a call has stored "A" for an EVS annual of 74 and "C" for a PE annual of 49
C15_Witness ==
    /\ last.op = "generate_results" /\ last.status = 200
    /\ \E s \in students :
          /\ Key(s) \in DOMAIN results
          /\ AnnualOf(s, "EVS") = 74 /\ results[Key(s)].evs_grade = "A"
          /\ AnnualOf(s, "PE") = 49 /\ results[Key(s)].pe_grade = "C"

----------------------------------------------------------------------------
(* C16 *)

\* the required list derived from the allocation table as it is now
CurrentRequired(s) ==
    (IF AllocCodes(s.division) = <<>>
     THEN <<"ENG", "ECO", "BK", "OC">>
     ELSE FirstSeen(KeptCodes(s.division)))
      \o ChosenOptionals(s)

SameKey(m1, m2) ==
    /\ m1.roll_no = m2.roll_no
    /\ m1.division = m2.division
    /\ m1.subject_id = m2.subject_id

\* the request passes the checks enter_marks makes before it looks the key up
ReachesLookup(q) ==
    /\ subjects(q.subject_id) # ""
    /\ _check_teacher_allocation(allocs, q.user.id, q.subject_id, q.division)
    /\ \E s \in students :
          /\ s.roll_no = q.roll_no /\ s.division = q.division
          /\ subjects(q.subject_id) \in {"HINDI", "IT"}
                => s.optional_subject = subjects(q.subject_id)
          /\ subjects(q.subject_id) \in {"MATHS", "SP"}
                => s.optional_subject_2 = subjects(q.subject_id)

C18_MarksInRange ==
    \A m \in marks :
        /\ 0 <= m.unit1 /\ m.unit1 <= 25
        /\ 0 <= m.unit2 /\ m.unit2 <= 25
        /\ 0 <= m.term /\ m.term <= 50
        /\ 0 <= m.annual /\ m.annual <= 100
        /\ 0 <= m.grace /\ m.grace <= GRACE_MAX

\* update_marks has persisted scores and a grace and has then refused a body
\* that is out of range
C18_Witness ==
    /\ last.op = "update_marks"
    /\ last.status = 400
    /\ \E m \in marks : m.annual = Updated.annual /\ m.grace > 0

\* C19: a step gives a student a Result row only if the student is COMPLETE
\* on the Mark rows and allocations the pass of the engine read, and no step
\* takes a Result row away: whatever recomputations and mark mutations are
\* served, the set of students that have a Result row only grows.
C19_ResultRowsOnlyGrow ==
    [][/\ DOMAIN results \subseteq DOMAIN results'
       /\ \A k \in DOMAIN results' \ DOMAIN results :
             \E s \in students' :
                 Key(s) = k /\ ~missing_required(marks', allocs', s)]_vars

\* delete_mark has left a student INCOMPLETE whose Result row is still there
C19_Witness ==
    /\ last.op = "delete_mark"
    /\ last.status = 200
    /\ \E s \in students :
          Key(s) \in DOMAIN results /\ missing_required(marks, allocs, s)

\* C20: a delete_mark step that removes a Mark row removes exactly one and
\* answers 200, and no such step serves a requester who is neither an ADMIN
\* nor the teacher in the mark's entered_by: for that requester delete_mark
\* answers 403 and the Mark rows and the Result rows are what they were.
C20_DeleteNeedsOwnerOrAdmin ==
    [][last'.op = "delete_mark" =>
          /\ marks' # marks =>
                /\ last'.status = 200
                /\ \E m \in marks : marks' = marks \ {m}
          /\ \A user \in Users : \A target \in Targets :
                (/\ target # <<>>
                 /\ user.type # "ADMIN"
                 /\ target[1].entered_by # user.id
                 /\ delete_mark(user, target))
                    => /\ last'.status = 403
                       /\ marks' = marks
                       /\ results' = results]_vars

\* delete_mark has refused a teacher who did not enter the mark; the Mark and
\* a Result row computed from it are still there
C20_Witness ==
    /\ last.op = "delete_mark"
    /\ last.status = 403
    /\ \E m \in marks :
          /\ m.entered_by # ADMIN
          /\ <<m.roll_no, m.division>> \in DOMAIN results

----------------------------------------------------------------------------
(* C21 *)

\* C21: for a student found INCOMPLETE, a call of
\* generate_results_for_division leaves an existing Result row as it was
\* except that its percentage is null (the avg and grace fields, total_grace,
\* evs_grade and pe_grade keep their values), and creates no row if the
\* student has none.
C21_IncompleteOnlyClearsPercentage ==
    \A d \in Divisions :
        LET gen == Generated(d)
        IN  \A s \in StudentsOf(students, d) :
                ~Complete(s) =>
                    IF Key(s) \in DOMAIN results
                    THEN /\ Key(s) \in DOMAIN gen
                         /\ gen[Key(s)] = [results[Key(s)] EXCEPT !.percentage = NULL]
                    ELSE Key(s) \notin DOMAIN gen

\* an INCOMPLETE student whose row holds a percentage, grace values and a
\* grade from an earlier call
C21_Witness ==
    \E s \in students :
        /\ ~Complete(s)
        /\ Key(s) \in DOMAIN results
        /\ results[Key(s)].percentage # NULL
        /\ results[Key(s)].total_grace > 0
        /\ results[Key(s)].evs_grade # NoGrade

----------------------------------------------------------------------------
(* C22 *)

\* the base list holds exactly ENG, ECO, BK and OC
BaseIsCore(d) ==
    /\ Len(base_required(allocs, d)) = 4
    /\ \A c \in {"ENG", "ECO", "BK", "OC"} : InSeq(c, base_required(allocs, d))

\* p, in hundredths, is total / n rounded to two decimals
IsRounded(p, total, n) ==
    /\ 2 * (n * p - 100 * total) <= n
    /\ 2 * (100 * total - n * p) <= n

\* C22: when the division's base required list is exactly ENG, ECO, BK, OC
\* (from allocations or from the fallback), the count of a COMPLETE student
\* is 4 plus the number of optionals chosen and the percentage is the sum of
\* those subjects' annual values divided by the count, rounded to two
\* decimals; annuals 80, 70, 60, 90, 75, 65 give count 6 and 73.33.
C22_CountAndPercentage ==
    \A d \in Divisions :
        BaseIsCore(d) =>
            LET gen == Generated(d)
            IN  \A s \in StudentsOf(students, d) :
                    Complete(s) =>
                        LET codes == CoreCodes \o ChosenOptionals(s)
                            n == 4 + Len(ChosenOptionals(s))
                            total == AnnualSum(s, codes)
                        IN  /\ Tally(marks, s, NewResult).count = n
                            /\ IsRounded(gen[Key(s)].percentage, total, n)
                            /\ (/\ Len(codes) = 6
                                /\ \A i \in 1..6 :
                                      AnnualOf(s, codes[i]) = <<80, 70, 60, 90, 75, 65>>[i])
                                  => /\ n = 6
                                     /\ gen[Key(s)].percentage = 7333

\* the engine has stored 73.33 for annuals 80, 70, 60, 90, 75, 65, and a
\* student without optionals has a percentage over four subjects
C22_Witness ==
    /\ BaseIsCore("A")
    /\ \E s \in students :
          /\ Complete(s) /\ Len(ChosenOptionals(s)) = 2
          /\ Key(s) \in DOMAIN results
          /\ results[Key(s)].percentage = 7333
    /\ \E s \in students :
          /\ Complete(s) /\ ChosenOptionals(s) = <<>>
          /\ Key(s) \in DOMAIN results
          /\ results[Key(s)].percentage = 3800

----------------------------------------------------------------------------
(* C23 *)

\* the Result row the student has, an empty row if none
RowOf(s) == IF Key(s) \in DOMAIN results THEN results[Key(s)] ELSE NewResult

\* the grace of the student's Mark for a code, 0 when null
GraceOf(s, code) == Counted(mark_map(marks, s, code).grace)

\* the optional fields the scoring of a student leaves alone: those of the
\* optionals not chosen
OptionalsLeftAlone(s, r) ==
    \A c \in optional_codes :
        ~InSeq(c, ChosenOptionals(s)) =>
            /\ r[AvgField(c)] = RowOf(s)[AvgField(c)]
            /\ r[GraceField(c)] = RowOf(s)[GraceField(c)]

\* the chosen optionals' fields hold the Mark's annual and grace
OptionalsStored(s, r) ==
    \A i \in DOMAIN ChosenOptionals(s) :
        LET c == ChosenOptionals(s)[i]
        IN  /\ r[AvgField(c)] = AnnualOf(s, c)
            /\ r[GraceField(c)] = GraceOf(s, c)

\* C23 as stated: after the engine scores a COMPLETE student, for each core
\* subject that has a Mark and each chosen optional the avg field equals the
\* Mark's annual and the grace field the Mark's grace (0 when null), and the
\* fields of the optionals not chosen are as before.
C23_FieldsAsStated ==
    \A d \in Divisions :
        LET gen == Generated(d)
        IN  \A s \in StudentsOf(students, d) :
                Complete(s) =>
                    /\ \A i \in DOMAIN CoreCodes :
                          HasMark(marks, s, CoreCodes[i]) =>
                              /\ gen[Key(s)][AvgField(CoreCodes[i])] = AnnualOf(s, CoreCodes[i])
                              /\ gen[Key(s)][GraceField(CoreCodes[i])] = GraceOf(s, CoreCodes[i])
                    /\ OptionalsStored(s, gen[Key(s)])
                    /\ OptionalsLeftAlone(s, gen[Key(s)])

\* C23: after the engine scores a COMPLETE student, for each core subject
\* that has a Mark the avg field equals the Mark's annual, or 0 when that
\* annual is null, and for each chosen optional it equals the Mark's annual;
\* the grace field equals the Mark's grace (0 when null); the fields of the
\* optionals not chosen are as before.
C23_FieldsFromMarks ==
    \A d \in Divisions :
        LET gen == Generated(d)
        IN  \A s \in StudentsOf(students, d) :
                Complete(s) =>
                    /\ \A i \in DOMAIN CoreCodes :
                          HasMark(marks, s, CoreCodes[i]) =>
                              /\ gen[Key(s)][AvgField(CoreCodes[i])] =
                                    (IF AnnualOf(s, CoreCodes[i]) = NULL
                                     THEN 0 ELSE AnnualOf(s, CoreCodes[i]))
                              /\ gen[Key(s)][GraceField(CoreCodes[i])] = GraceOf(s, CoreCodes[i])
                    /\ OptionalsStored(s, gen[Key(s)])
                    /\ OptionalsLeftAlone(s, gen[Key(s)])

\* the engine has scored a student whose optional mark has a grace, one
\* whose core mark has a null grace, and one whose OC mark, not required, has
\* a null annual
C23_Witness ==
    /\ \E s \in students :
          /\ Complete(s) /\ Key(s) \in DOMAIN results
          /\ results[Key(s)].hindi_avg = 75 /\ results[Key(s)].hindi_grace = 5
          /\ results[Key(s)].it_avg = NULL
    /\ \E s \in students :
          /\ Complete(s) /\ Key(s) \in DOMAIN results
          /\ HasMark(marks, s, "BK") /\ mark_map(marks, s, "BK").grace = NULL
          /\ results[Key(s)].bk_grace = 0
    /\ \E s \in students :
          /\ Complete(s) /\ Key(s) \in DOMAIN results
          /\ HasMark(marks, s, "OC") /\ AnnualOf(s, "OC") = NULL
          /\ results[Key(s)].oc_avg = 0

----------------------------------------------------------------------------
(* C24 *)

\* the Result rows of a student
RowsFor(s) == {id \in DOMAIN results : id[1] = s.roll_no /\ id[2] = s.division}

\* C24: when two calls of generate_results_for_division for the same
\* division have interleaved and ended, every student of the division has at
\* most one Result row, and that row is the row one of the two calls would
\* have produced alone, from what it read: no row holds columns of both.
C24_LastWriteWins ==
    (/\ \A c \in Calls : calls[c].pc \in {"done", "failed"}
     /\ calls[1].division = calls[2].division)
        => \A s \in StudentsOf(students, calls[1].division) :
               /\ RowsFor(s) \subseteq {Key(s)}
               /\ Key(s) \in DOMAIN results =>
                     \E c \in Calls :
                         /\ Key(s) \in DOMAIN calls[c].view
                         /\ results[Key(s)] = calls[c].view[Key(s)]

----------------------------------------------------------------------------
(* C25 *)

\* C25: every Mark row that enter_marks or update_marks has persisted has
\* tot = unit1 + unit2 + term + annual and sub_avg = tot / 2 rounded to two
\* decimals, with 0 <= tot <= 200 and 0 <= sub_avg <= 100.
C25_TotAndSubAvg ==
    \A m \in marks :
        /\ m.tot = m.unit1 + m.unit2 + m.term + m.annual
        /\ IsRounded(m.sub_avg, m.tot, 2)
        /\ 0 <= m.tot /\ m.tot <= 200
        /\ 0 <= m.sub_avg /\ m.sub_avg <= 100 * 100

\* update_marks has persisted the scores 20, 20, 40, 75: tot 155, sub_avg 77.5
C25_Witness ==
    /\ last.op = "update_marks"
    /\ last.status = 200
    /\ \E m \in marks : m.annual = 75 /\ m.tot = 155 /\ m.sub_avg = 7750

----------------------------------------------------------------------------
(* C26 *)

\* C26: update_marks changes the grace of a Mark only when marks have been
\* submitted for all eligible students of the mark's subject and division
\* (_are_all_marks_submitted); otherwise the stored grace stays.
C26_GraceOnlyWhenAllSubmitted ==
    [][last'.op = "update_marks" =>
          \A m \in marks : \A n \in marks' :
              (SameKey(m, n) /\ n.grace # m.grace)
                  => _are_all_marks_submitted(students, marks, m.subject_id, m.division)]_vars

----------------------------------------------------------------------------
(* C27 *)

\* the student the Mark row belongs to chose the Mark's subject, if it is an
\* optional
ChosenBy(m) ==
    \E s \in students :
        /\ s.roll_no = m.roll_no /\ s.division = m.division
        /\ subjects(m.subject_id) \in {"HINDI", "IT"}
              => s.optional_subject = subjects(m.subject_id)
        /\ subjects(m.subject_id) \in {"MATHS", "SP"}
              => s.optional_subject_2 = subjects(m.subject_id)

\* the request is for an optional that the student it names did not choose
ForOtherOptional(q) ==
    \E s \in students :
        /\ s.roll_no = q.roll_no /\ s.division = q.division
        /\ \/ /\ subjects(q.subject_id) \in {"HINDI", "IT"}
              /\ s.optional_subject # subjects(q.subject_id)
           \/ /\ subjects(q.subject_id) \in {"MATHS", "SP"}
              /\ s.optional_subject_2 # subjects(q.subject_id)

----------------------------------------------------------------------------
(* C28 *)

\* C28: when enter_marks or update_marks answers with an error (400, 403,
\* 404 or 409), the Mark rows and the Result rows are what they were before
\* the request: none created, none modified.
C28_ErrorsChangeNothing ==
    [][(/\ last'.op \in {"enter_marks", "update_marks"}
        /\ last'.status \in {400, 403, 404, 409})
          => marks' = marks /\ results' = results]_vars

\* enter_marks has answered 400 on a database that holds a Mark and a Result
C28_Witness ==
    /\ last.op = "enter_marks"
    /\ last.status = 400
    /\ marks # {}
    /\ DOMAIN results # {}

----------------------------------------------------------------------------
(* C29 *)

\* the grade-only subjects and their fields
GradeFields == {<<"EVS", "evs_grade">>, <<"PE", "pe_grade">>}

\* C29: a call of generate_results_for_division never clears evs_grade or
\* pe_grade: a grade a row holds is still a grade after the call, and for a
\* COMPLETE student who has no EVS (PE) Mark with an annual, for instance
\* after the mark was deleted, the row keeps the evs_grade (pe_grade) an
\* earlier call stored.
C29_GradesAreKept ==
    \A d \in Divisions :
        LET gen == Generated(d)
        IN  \A s \in StudentsOf(students, d) : \A cf \in GradeFields :
                Key(s) \in DOMAIN results =>
                    /\ results[Key(s)][cf[2]] # NoGrade => gen[Key(s)][cf[2]] # NoGrade
                    /\ (Complete(s) /\ NoAnnual(s, cf[1]))
                          => gen[Key(s)][cf[2]] = results[Key(s)][cf[2]]

\* an EVS mark has been deleted and the engine has run since: the student
\* is COMPLETE, has no EVS Mark, and the row still holds the grade
C29_Witness ==
    /\ last.op = "delete_mark"
    /\ last.status = 200
    /\ ~last.failed
    /\ \E s \in students :
          /\ Complete(s)
          /\ ~HasMark(marks, s, "EVS")
          /\ Key(s) \in DOMAIN results
          /\ results[Key(s)].percentage # NULL
          /\ results[Key(s)].evs_grade = "A"

----------------------------------------------------------------------------
(* C30 *)

====
